---- MODULE Spec2Model ----
(***************************************************************************)
(* Selective Field Protection Engine (src/criptografia.py,                 *)
(* class SecureDataProcessor): key provider, content guard, cipher engine  *)
(* and record transformer (protect / reveal / hash search).                *)
(*                                                                         *)
(* Text is a sequence of characters; a character is its Unicode code       *)
(* point (0..255 for the text a caller types).  The characters of the      *)
(* base64 text of a Fernet token are codes >= 256 (see CipherByte), so a   *)
(* token is text like any other and can be sanitized, hashed, encrypted a  *)
(* second time and compared.                                               *)
(***************************************************************************)
EXTENDS Integers, Sequences, FiniteSets, TLC

(***************************************************************************)
(* Bounds of the model.                                                    *)
(***************************************************************************)
MaxLen == 2     \* generated cell texts: every text of at most MaxLen characters of GenAlphabet
MaxRows == 2    \* records of a generated record set
MaxCalls == 3   \* protect / reveal / search calls on one engine

(***************************************************************************)
(* Characters and literals.                                                *)
(***************************************************************************)
\* Python ord() on the characters the model writes literally.
CodeTable ==
    <<
       <<"\t", 9>>, <<" ", 32>>, <<"$", 36>>, <<"&", 38>>, <<"(", 40>>,
       <<")", 41>>, <<"-", 45>>, <<".", 46>>, <<"/", 47>>, <<"0", 48>>,
       <<"1", 49>>, <<"2", 50>>, <<"3", 51>>, <<"4", 52>>, <<"5", 53>>,
       <<"6", 54>>, <<"7", 55>>, <<"8", 56>>, <<"9", 57>>, <<":", 58>>,
       <<";", 59>>, <<"<", 60>>, <<">", 62>>, <<"B", 66>>, <<"C", 67>>,
       <<"D", 68>>, <<"E", 69>>, <<"K", 75>>, <<"L", 76>>, <<"N", 78>>,
       <<"O", 79>>, <<"P", 80>>, <<"R", 82>>, <<"T", 84>>, <<"Y", 89>>,
       <<"[", 91>>, <<"]", 93>>, <<"_", 95>>, <<"a", 97>>, <<"b", 98>>,
       <<"c", 99>>, <<"d", 100>>, <<"e", 101>>, <<"f", 102>>, <<"i", 105>>,
       <<"j", 106>>, <<"l", 108>>, <<"m", 109>>, <<"n", 110>>, <<"o", 111>>,
       <<"p", 112>>, <<"r", 114>>, <<"s", 115>>, <<"t", 116>>, <<"u", 117>>,
       <<"v", 118>>, <<"x", 120>>, <<"y", 121>>, <<"{", 123>>, <<"|", 124>>,
       <<"}", 125>>
    >>

CodeOf ==
    [c \in {CodeTable[i][1] : i \in 1..Len(CodeTable)} |->
        CodeTable[CHOOSE i \in 1..Len(CodeTable) : CodeTable[i][1] = c][2]]

\* A literal: the text whose characters are the one-character strings of cs.
Lit(cs) == [i \in 1..Len(cs) |-> CodeOf[cs[i]]]

\* The text of n copies of the character ch.
Repeat(ch, n) == [i \in 1..n |-> CodeOf[ch]]

\* s[a..b] (1-based, inclusive); the empty text when a > b.
Slice(s, a, b) == IF a > b THEN <<>> ELSE SubSeq(s, a, b)

\* lit occurs in t at position i.
At(t, i, lit) ==
    /\ i >= 1
    /\ i + Len(lit) - 1 <= Len(t)
    /\ \A j \in 1..Len(lit) : t[i + j - 1] = lit[j]

\* lit occurs in t at some position >= from.
FindFrom(t, lit, from) == \E i \in from..Len(t) : At(t, i, lit)

Contains(t, lit) == FindFrom(t, lit, 1)

\* Python str.startswith.
StartsWith(t, lit) == At(t, 1, lit)

\* Python str.isspace() on one character, which is also what \s matches and
\* what str.strip() removes (code points below 256).
IsSpace(c) == c \in (9..13) \cup (28..32) \cup {133, 160}

\* Python str.lower() on one character (code points below 256).
LowerChar(c) ==
    IF c \in 65..90 \/ (c \in 192..222 /\ c # 215) THEN c + 32 ELSE c

Lower(t) == [i \in 1..Len(t) |-> LowerChar(t[i])]

\* Python str(n) for a non-negative integer n.
RECURSIVE Digits(_)
Digits(n) == IF n < 10 THEN <<48 + n>> ELSE Digits(n \div 10) \o <<48 + (n % 10)>>

(***************************************************************************)
(* Content Guard: _detect_injection_patterns and _sanitize_input.          *)
(***************************************************************************)
\* The literals of the injection patterns.
SqlVerbs ==
    { Lit(<<"u","n","i","o","n">>), Lit(<<"s","e","l","e","c","t">>),
      Lit(<<"i","n","s","e","r","t">>), Lit(<<"u","p","d","a","t","e">>),
      Lit(<<"d","e","l","e","t","e">>), Lit(<<"d","r","o","p">>) }

ScriptOpen == Lit(<<"<","s","c","r","i","p","t">>)

ScriptClose == Lit(<<"<","/","s","c","r","i","p","t",">">>)

JavascriptUri == Lit(<<"j","a","v","a","s","c","r","i","p","t",":">>)

ShellTokens == { Lit(<<"|","|">>), Lit(<<"&","&">>), Lit(<<";">>) }

EvalCalls ==
    { Lit(<<"e","v","a","l","(">>), Lit(<<"e","x","e","c","(">>),
      Lit(<<"s","y","s","t","e","m","(">>) }

DialogCalls ==
    { Lit(<<"p","r","o","m","p","t","(">>), Lit(<<"a","l","e","r","t","(">>),
      Lit(<<"c","o","n","f","i","r","m","(">>) }

BraceOpen == Lit(<<"{","{">>)

BraceClose == Lit(<<"}","}">>)

DollarOpen == Lit(<<"$","{">>)

OneBraceClose == Lit(<<"}">>)

ImportWord == Lit(<<"i","m","p","o","r","t">>)

FromWord == Lit(<<"f","r","o","m">>)

TagOpen == CodeOf["<"]

TagClose == CodeOf[">"]

\* lit followed by at least one whitespace character, somewhere in t.
WordThenSpace(t, lit) ==
    \E i \in 1..Len(t) :
        /\ At(t, i, lit)
        /\ i + Len(lit) <= Len(t)
        /\ IsSpace(t[i + Len(lit)])

\* r'<script.*?>.*?</script>' (DOTALL)
PatXss(t) ==
    \E i \in 1..Len(t) :
        /\ At(t, i, ScriptOpen)
        /\ \E j \in (i + Len(ScriptOpen))..Len(t) :
              /\ t[j] = TagClose
              /\ FindFrom(t, ScriptClose, j + 1)

\* r'javascript:'
PatJsUri(t) == Contains(t, JavascriptUri)

\* r'(union|select|insert|update|delete|drop)\s+'
PatSql(t) == \E w \in SqlVerbs : WordThenSpace(t, w)

\* r'(\|\||&&|\;)'
PatShell(t) == \E w \in ShellTokens : Contains(t, w)

\* r'(eval\(|exec\(|system\()'
PatEval(t) == \E w \in EvalCalls : Contains(t, w)

\* r'({{.*}}|\${.*})' (DOTALL)
PatTemplate(t) ==
    \/ \E i \in 1..Len(t) :
          /\ At(t, i, BraceOpen)
          /\ FindFrom(t, BraceClose, i + Len(BraceOpen))
    \/ \E i \in 1..Len(t) :
          /\ At(t, i, DollarOpen)
          /\ FindFrom(t, OneBraceClose, i + Len(DollarOpen))

\* r'(prompt\(|alert\(|confirm\()'
PatDialog(t) == \E w \in DialogCalls : Contains(t, w)

\* r'(import\s+|from\s+.*import)' (DOTALL)
PatImport(t) ==
    \/ WordThenSpace(t, ImportWord)
    \/ \E i \in 1..Len(t) :
          /\ At(t, i, FromWord)
          /\ i + Len(FromWord) <= Len(t)
          /\ IsSpace(t[i + Len(FromWord)])
          /\ FindFrom(t, ImportWord, i + Len(FromWord) + 1)

\* re.search of some injection pattern in text.lower(), IGNORECASE | DOTALL.
MatchesAny(t) ==
    \/ PatXss(t) \/ PatJsUri(t) \/ PatSql(t) \/ PatShell(t)
    \/ PatEval(t) \/ PatTemplate(t) \/ PatDialog(t) \/ PatImport(t)

\* _detect_injection_patterns(text) on a str: the value returned.
MatchesInjection(text) == MatchesAny(Lower(text))

\* [\x00-\x1f\x7f-\x9f]
IsControl(c) == c \in (0..31) \cup (127..159)

\* re.sub(r'[\x00-\x1f\x7f-\x9f]', '', data)
StripControl(s) == SelectSeq(s, LAMBDA c : ~IsControl(c))

\* Position of the first c in s at or after from; 0 when there is none.
FirstFrom(s, c, from) ==
    IF \E i \in from..Len(s) : s[i] = c
    THEN CHOOSE i \in from..Len(s) : s[i] = c /\ \A j \in from..(i - 1) : s[j] # c
    ELSE 0

\* re.sub(r'<[^>]*>', '', s): leftmost, non-overlapping matches; a match
\* starts at the first '<' that has a '>' after it and ends at the first '>'.
RECURSIVE RemoveTags(_)
RemoveTags(s) ==
    LET open == FirstFrom(s, TagOpen, 1)
        close == IF open = 0 THEN 0 ELSE FirstFrom(s, TagClose, open + 1)
    IN  IF close = 0 THEN s
        ELSE Slice(s, 1, open - 1) \o RemoveTags(Slice(s, close + 1, Len(s)))

\* The size limit of a field (len(sanitized) > 1000).
MaxFieldLen == 1000

Ellipsis == Lit(<<".", ".", ".">>)

\* sanitized[:1000] + "..." when longer than the limit.
Truncate(s) ==
    IF Len(s) > MaxFieldLen
    THEN Slice(s, 1, MaxFieldLen) \o Ellipsis
    ELSE s

\* Python str.strip(): leading and trailing whitespace removed.
Strip(s) ==
    IF \A i \in 1..Len(s) : IsSpace(s[i]) THEN <<>>
    ELSE LET first == CHOOSE i \in 1..Len(s) :
                          ~IsSpace(s[i]) /\ \A j \in 1..(i - 1) : IsSpace(s[j])
             last == CHOOSE i \in 1..Len(s) :
                          ~IsSpace(s[i]) /\ \A j \in (i + 1)..Len(s) : IsSpace(s[j])
         IN  Slice(s, first, last)

\* _sanitize_input on a str argument.
SanitizeInput(data) == Strip(Truncate(RemoveTags(StripControl(data))))

(***************************************************************************)
(* Cipher Engine.                                                          *)
(*                                                                         *)
(* SHA-256 and Fernet are modelled symbolically.  The digest of a text is  *)
(* an injective image of it (no collisions: the spec sets collisions       *)
(* aside) made of a mark and one digest character per character, none of   *)
(* them a character of plain text; it involves no key.                     *)
(* A Fernet token under key k is a header                                  *)
(* byte carrying the IV followed by one byte per plaintext byte and by     *)
(* the HMAC, a byte that seals the number of bytes before it; every byte   *)
(* is authenticated by k: decryption with another key, of a token cut      *)
(* short, or of bytes that Fernet did not produce, raises InvalidToken.    *)
(***************************************************************************)
\* The mark that starts a digest (no character has a negative code), so
\* that the digest of the empty text is not empty.
HashMark == 0 - 1

\* Faulty variant of HashForIndexing: every text has the same hash.
ConstantHash(data) == <<HashMark>>

\* hashlib.sha256(data.encode()).hexdigest()[:16]
HashForIndexing(data) == <<HashMark>> \o [i \in 1..Len(data) |-> 0 - data[i] - 2]

\* One byte of a Fernet token: x sealed under key (key in 1..15).
\* Even codes from 256 on, so that no token byte is a character of plain text.
CipherByte(key, x) == 256 + 64 * x + 4 * key

IsCipherByte(b) == b >= 256 /\ b % 4 = 0

KeyOf(b) == ((b - 256) % 64) \div 4

PlainOf(b) == (b - 256) \div 64

\* The HMAC of a token of n bytes under key: no cipher byte is one.
SealByte(key, n) == CipherByte(key, n) + 2

\* Fernet(key).encrypt(data) with the random IV iv.
FernetEncrypt(key, iv, data) ==
    <<CipherByte(key, iv)>> \o [i \in 1..Len(data) |-> CipherByte(key, data[i])]
        \o <<SealByte(key, Len(data) + 1)>>

\* Faulty variant of FernetValid: a token sealed under any key is accepted.
AnyKeyValid(key, token) ==
    /\ Len(token) >= 2
    /\ \A i \in 1..(Len(token) - 1) : IsCipherByte(token[i])
    /\ \E k \in 1..15 : token[Len(token)] = SealByte(k, Len(token) - 1)

\* Fernet(key).decrypt accepts exactly the tokens Fernet(key).encrypt made.
FernetValid(key, token) ==
    /\ Len(token) >= 2
    /\ \A i \in 1..(Len(token) - 1) : IsCipherByte(token[i]) /\ KeyOf(token[i]) = key
    /\ token[Len(token)] = SealByte(key, Len(token) - 1)

FernetDecrypt(key, token) == [i \in 1..(Len(token) - 2) |-> PlainOf(token[i + 1])]

\* base64.b64encode(...).decode(): a byte becomes the character one above it
\* (odd codes from 257 on).
B64Encode(bytes) == [i \in 1..Len(bytes) |-> bytes[i] + 1]

IsB64OfCipher(c) == c >= 257 /\ c % 2 = 1

\* A character of the base64 alphabet typed as plain text: A-Z a-z 0-9 + / =
IsB64Plain(c) ==
    c \in (65..90) \cup (97..122) \cup (48..57) \cup {43, 47, 61}

\* base64.b64decode(text) (validate=False): characters outside the alphabet
\* are discarded; alphabet characters that no b64encode of a token produced
\* decode to bytes that are no token bytes (they stay below 256).
B64Decode(text) ==
    LET kept == SelectSeq(text, LAMBDA c : IsB64OfCipher(c) \/ IsB64Plain(c))
    IN  [i \in 1..Len(kept) |-> IF IsB64OfCipher(kept[i]) THEN kept[i] - 1 ELSE kept[i]]

\* The marker of an encrypted cell.
EncMarker == Lit(<<"E", "N", "C", ":">>)

\* f"ENC:{base64.b64encode(cipher_suite.encrypt(value.encode())).decode()}"
EncryptValue(key, iv, value) == EncMarker \o B64Encode(FernetEncrypt(key, iv, value))

BlockedContent ==
    Lit(<<"[","B","L","O","C","K","E","D","_","C","O","N","T","E","N","T","]">>)

DecryptError ==
    Lit(<<"[","D","E","C","R","Y","P","T","_","E","R","R","O","R","]">>)

Zero == Lit(<<"0">>)

NanText == Lit(<<"n", "a", "n">>)

VersionTag == Lit(<<"2",".","0","_","s","e","l","e","c","t","i","v","e">>)

TimePrefix == Lit(<<"T">>)

\* Faulty variant of DecryptValue: the cell is returned as it is.
LeaveEncrypted(key, str_value) == str_value

\* Lines 239-249 of decrypt_sensitive_data on one cell text: the try/except
\* around b64decode and decrypt yields the sentinel on any failure.
DecryptValue(key, str_value) ==
    IF StartsWith(str_value, EncMarker)
    THEN LET encrypted_data == B64Decode(Slice(str_value, 5, Len(str_value)))
         IN  IF FernetValid(key, encrypted_data)
             THEN FernetDecrypt(key, encrypted_data)
             ELSE DecryptError
    ELSE str_value

(***************************************************************************)
(* Record sets (pandas DataFrame).                                         *)
(*                                                                         *)
(* A cell is a str, a number or an absent value (NaN).  A record set has   *)
(* its column names in order, n records, and per column the cells of the   *)
(* records in order.                                                       *)
(***************************************************************************)
StrCell(text) == [t |-> "str", s |-> text, n |-> 0]

NumCell(k) == [t |-> "num", s |-> <<>>, n |-> k]

NaN == [t |-> "nan", s |-> <<>>, n |-> 0]

\* pd.notna(value)
NotNa(value) == value.t # "nan"

\* str(value)
PyStr(value) ==
    CASE value.t = "str" -> value.s
      [] value.t = "num" -> Digits(value.n)
      [] value.t = "nan" -> NanText

\* pd.DataFrame()
EmptyDataFrame == [columns |-> <<>>, n |-> 0, data |-> <<>>]

ColumnSet(df) == {df.columns[i] : i \in 1..Len(df.columns)}

\* df[column] = values: an existing column is replaced in place, a new one
\* is appended after the last column.
SetColumn(df, column, values) ==
    [columns |-> IF column \in ColumnSet(df) THEN df.columns
                 ELSE Append(df.columns, column),
     n |-> df.n,
     data |-> [c \in ColumnSet(df) \cup {column} |->
                  IF c = column THEN values ELSE df.data[c]]]

\* df[column] = scalar
SetScalar(df, column, value) == SetColumn(df, column, [i \in 1..df.n |-> value])

\* df[mask]: the records whose position is in keep, in their order, every
\* column kept.
RECURSIVE Positions(_, _)
Positions(keep, upto) ==
    IF upto = 0 THEN <<>>
    ELSE IF upto \in keep THEN Append(Positions(keep, upto - 1), upto)
         ELSE Positions(keep, upto - 1)

SelectRows(df, keep) ==
    LET pos == Positions(keep, df.n) IN
        [columns |-> df.columns,
         n |-> Len(pos),
         data |-> [c \in ColumnSet(df) |-> [i \in 1..Len(pos) |-> df.data[c][pos[i]]]]]

\* Faulty variant of ArgumentAfter: no copy is made, the record set that is
\* rewritten is the argument itself.
RewrittenInPlace(df, written) == written

\* encrypted_df = df.copy() (line 151) and decrypted_df = encrypted_df.copy()
\* (line 231): the columns are assigned on the copy, which becomes written;
\* this is what the argument df holds after the call.
ArgumentAfter(df, written) == df

(***************************************************************************)
(* Field classification (__init__): the groups flattened in declaration    *)
(* order, which is the order the loops over .items() visit them in.        *)
(***************************************************************************)
SensitiveFields ==
    << "Emitente CNPJ", "Destinatário CNPJ", "Transportadora CNPJ",
       "Destinatário CPF",
       "Emitente IE", "Destinatário IE",
       "Emitente Nome", "Destinatário Nome", "Transportadora Nome", "Emitente Fantasia",
       "Número NF", "Chave NFe", "Protocolo",
       "Emitente CEP", "Destinatário CEP", "Emitente Município",
       "Destinatário Município", "Emitente Logradouro", "Destinatário Logradouro" >>

PublicFields ==
    << "Produto", "Descrição", "NCM", "CFOP", "Unidade", "Quantidade",
       "Valor Unitário", "Valor Total", "Base ICMS", "Alíquota ICMS",
       "Valor ICMS", "Base PIS", "Alíquota PIS", "Valor PIS",
       "Base COFINS", "Alíquota COFINS", "Valor COFINS", "Valor IPI",
       "Base IPI", "Alíquota IPI",
       "Natureza Operação", "UF", "Modelo", "Série", "Tipo NF", "Finalidade",
       "Data Emissão", "Data Saída/Entrada" >>

IsSensitiveField(f) == \E i \in 1..Len(SensitiveFields) : SensitiveFields[i] = f

\* Faulty variant of SensitiveColumns: every column is taken for sensitive.
AllColumnsSensitive(df) == df.columns

\* sensitive_columns of encrypt_sensitive_data
SensitiveColumns(df) == SelectSeq(SensitiveFields, LAMBDA f : f \in ColumnSet(df))

\* public_columns of encrypt_sensitive_data
PublicColumns(df) == SelectSeq(PublicFields, LAMBDA f : f \in ColumnSet(df))

\* f"{column}_hash"
HashColumn(column) == column \o "_hash"

MetadataColumns ==
    << "_encrypted_timestamp", "_encryption_version",
       "_public_fields_count", "_encrypted_fields_count" >>

(***************************************************************************)
(* Audit counters (encryption_stats).                                      *)
(***************************************************************************)
\* datetime.now().isoformat() at logical time now.
IsoFormat(now) == TimePrefix \o Digits(now)

\* encryption_stats as __init__ sets it.
InitialStats(now) ==
    [total_records |-> 0, encrypted_fields |-> 0, public_fields |-> 0,
     blocked_injections |-> 0, timestamp |-> IsoFormat(now)]

(***************************************************************************)
(* Record Transformer: encrypt_sensitive_data (protect).                   *)
(***************************************************************************)
\* Line 190 on: the record of one guarded cell.  str_value is the text after
\* the injection check, sanitized_value its sanitized form, blocked whether a
\* pattern matched, encrypt the test of line 190.
GuardRecord(str_value, sanitized_value, blocked) ==
    [str_value |-> str_value,
     sanitized_value |-> sanitized_value,
     blocked |-> blocked,
     encrypt |-> sanitized_value # <<>> /\ sanitized_value # Zero]

\* Line 188: sanitized_value = self._sanitize_input(str_value)
SanitizeStep(str_value, blocked) ==
    GuardRecord(str_value, SanitizeInput(str_value), blocked)

\* Faulty variant of BlockStep: a text that matches a pattern is counted but
\* not replaced.
BlockStepKeep(str_value, blocked) == SanitizeStep(str_value, blocked)

\* Lines 182-185: the sentinel replaces a text that matches a pattern.
BlockStep(str_value, blocked) ==
    SanitizeStep(IF blocked THEN BlockedContent ELSE str_value, blocked)

\* Line 179: str_value = str(value) if pd.notna(value) else ""
Coerce(value) == IF NotNa(value) THEN PyStr(value) ELSE <<>>

\* Faulty variant of GuardText: the injection check is skipped.
GuardWithoutCheck(str_value) == BlockStep(str_value, FALSE)

\* Lines 179-190 on the coerced text of one cell.
GuardText(str_value) == BlockStep(str_value, MatchesInjection(str_value))

\* Lines 179-190 on one cell: coercion to str, injection check with the
\* sentinel substituted, sanitization, and the test that decides encryption.
GuardCell(value) == GuardText(Coerce(value))

\* Line 194 / line 202: the cell written for a guarded value.
EncryptedValue(key, iv, g) ==
    IF g.encrypt THEN StrCell(EncryptValue(key, iv, g.sanitized_value))
    ELSE StrCell(g.str_value)

\* Faulty variant of HashedIndex: the hash is taken of the text before
\* sanitization.
HashOfUnsanitized(g) ==
    IF g.encrypt THEN StrCell(HashForIndexing(g.str_value))
    ELSE StrCell(<<>>)

\* Line 198 / line 203: the hash cell written for a guarded value.
HashedIndex(g) ==
    IF g.encrypt THEN StrCell(HashForIndexing(g.sanitized_value))
    ELSE StrCell(<<>>)

\* Number of the cells g[1..upto] that are encrypted.
EncryptedUpTo(g, upto) == Cardinality({j \in 1..upto : g[j].encrypt})

\* Faulty variant of ColumnResult: the key is mixed into the hash.
KeyedHashes(key, iv, g) ==
    [encrypted_values |->
         [i \in 1..Len(g) |-> EncryptedValue(key, iv + EncryptedUpTo(g, i - 1), g[i])],
     hashed_indexes |->
         [i \in 1..Len(g) |->
             IF g[i].encrypt THEN StrCell(HashForIndexing(<<key>> \o g[i].sanitized_value))
             ELSE StrCell(<<>>)],
     encrypted |-> EncryptedUpTo(g, Len(g)),
     blocked |-> 2 * Cardinality({i \in 1..Len(g) : g[i].blocked})]

\* Faulty variant of ColumnResult: the values are stored in reverse order.
ReversedResult(key, iv, g) ==
    [encrypted_values |->
         [i \in 1..Len(g) |->
             EncryptedValue(key, iv + EncryptedUpTo(g, Len(g) - i), g[Len(g) + 1 - i])],
     hashed_indexes |-> [i \in 1..Len(g) |-> HashedIndex(g[i])],
     encrypted |-> EncryptedUpTo(g, Len(g)),
     blocked |-> 2 * Cardinality({i \in 1..Len(g) : g[i].blocked})]

\* Lines 190-203 for the guarded cells g of one column: the k-th encryption
\* of the call draws the IV iv + k - 1.  blocked counts the increments of
\* blocked_injections: one in _detect_injection_patterns (line 114) and one
\* in the caller (line 185) per blocked cell.
ColumnResult(key, iv, g) ==
    [encrypted_values |->
         [i \in 1..Len(g) |-> EncryptedValue(key, iv + EncryptedUpTo(g, i - 1), g[i])],
     hashed_indexes |-> [i \in 1..Len(g) |-> HashedIndex(g[i])],
     encrypted |-> EncryptedUpTo(g, Len(g)),
     blocked |-> 2 * Cardinality({i \in 1..Len(g) : g[i].blocked})]

\* Lines 174-203 for one column.
EncryptColumn(key, iv, values) ==
    ColumnResult(key, iv, [i \in 1..Len(values) |-> GuardCell(values[i])])

\* Lines 205-207 and the counters for one column: r is what EncryptColumn
\* returned for it.  acc holds encrypted_df, the counters and the next IV.
StoreColumn(acc, column, r) ==
    [df |-> SetColumn(SetColumn(acc.df, column, r.encrypted_values),
                      HashColumn(column), r.hashed_indexes),
     stats |-> [acc.stats EXCEPT
                   !.encrypted_fields = @ + r.encrypted,
                   !.blocked_injections = @ + r.blocked],
     iv |-> acc.iv + r.encrypted]

\* The loop of lines 172-207 from the k-th sensitive column on; the values
\* are read from df, the argument of the call.
RECURSIVE EncryptColumns(_, _, _, _, _)
EncryptColumns(key, df, sensitive_columns, k, acc) ==
    IF k > Len(sensitive_columns) THEN acc
    ELSE EncryptColumns(key, df, sensitive_columns, k + 1,
             StoreColumn(acc, sensitive_columns[k],
                 EncryptColumn(key, acc.iv, df.data[sensitive_columns[k]])))

\* Lines 213-216: the metadata columns.
AddMetadata(encrypted_df, now, public_count, sensitive_count) ==
    SetScalar(
        SetScalar(
            SetScalar(
                SetScalar(encrypted_df, "_encrypted_timestamp", StrCell(IsoFormat(now))),
                "_encryption_version", StrCell(VersionTag)),
            "_public_fields_count", NumCell(public_count)),
        "_encrypted_fields_count", NumCell(sensitive_count))

\* Lines 209-219: looped is the state after the loop over the columns.
FinishEncrypt(looped, now, public_count, sensitive_count) ==
    [df |-> AddMetadata(looped.df, now, public_count, sensitive_count),
     stats |-> [looped.stats EXCEPT !.public_fields = public_count]]

\* Lines 151-207: the copy, total_records and the loop.
EncryptLoop(key, stats, df, iv, sensitive_columns) ==
    EncryptColumns(key, df, sensitive_columns, 1,
        [df |-> df, stats |-> [stats EXCEPT !.total_records = df.n], iv |-> iv])

\* encrypt_sensitive_data(df) on an engine with this key and these counters,
\* at logical time now, the first IV drawn being iv.
\* Returns the protected record set and the counters after the call.
EncryptSensitiveData(key, stats, df, iv, now) ==
    FinishEncrypt(EncryptLoop(key, stats, df, iv, SensitiveColumns(df)),
                  now, Len(PublicColumns(df)), Len(SensitiveColumns(df)))

(***************************************************************************)
(* Record Transformer: decrypt_sensitive_data (reveal).                    *)
(***************************************************************************)
\* The fields_to_decrypt argument: None, or a list of names.
NoFields == [given |-> FALSE, names |-> <<>>]

Fields(names) == [given |-> TRUE, names |-> names]

\* Faulty variant of EncryptedColumns: only the first record is looked at.
MarkedInFirstRecord(df) ==
    SelectSeq(df.columns,
              LAMBDA c : df.n >= 1 /\ StartsWith(PyStr(df.data[c][1]), EncMarker))

\* Lines 227-228: the columns in which some cell, as str, starts with ENC:
EncryptedColumns(df) ==
    SelectSeq(df.columns,
              LAMBDA c : \E i \in 1..df.n : StartsWith(PyStr(df.data[c][i]), EncMarker))

\* Lines 233-251 from the k-th name on; values are read from encrypted_df.
RECURSIVE DecryptColumns(_, _, _, _, _)
DecryptColumns(key, encrypted_df, names, k, decrypted_df) ==
    IF k > Len(names) THEN decrypted_df
    ELSE LET column == names[k] IN
         DecryptColumns(key, encrypted_df, names, k + 1,
             IF column \in ColumnSet(encrypted_df)
             THEN SetColumn(decrypted_df, column,
                      [i \in 1..encrypted_df.n |->
                          StrCell(DecryptValue(key, PyStr(encrypted_df.data[column][i])))])
             ELSE decrypted_df)

\* Faulty variant of DecryptSensitiveData: the list given is ignored and
\* every column with a token is decrypted.
RevealAllEncrypted(key, encrypted_df, fields_to_decrypt) ==
    DecryptColumns(key, encrypted_df, EncryptedColumns(encrypted_df), 1, encrypted_df)

\* decrypt_sensitive_data(encrypted_df, fields_to_decrypt)
DecryptSensitiveData(key, encrypted_df, fields_to_decrypt) ==
    LET names == IF fields_to_decrypt.given THEN fields_to_decrypt.names
                 ELSE EncryptedColumns(encrypted_df)
    IN  DecryptColumns(key, encrypted_df, names, 1, encrypted_df)

(***************************************************************************)
(* Record Transformer: search_by_hash.                                     *)
(***************************************************************************)
\* Faulty variant of HashMatches: every record with a non-empty hash matches.
NonEmptyHashes(encrypted_df, hash_column, search_hash) ==
    {i \in 1..encrypted_df.n : encrypted_df.data[hash_column][i] # StrCell(<<>>)}

\* Faulty variant of SearchByHash: a missing hash column yields the result
\* of a search that matched nothing.
EmptySelection(encrypted_df, field, search_value) == SelectRows(encrypted_df, {})

\* encrypted_df[hash_column] == search_hash, per record.
HashMatches(encrypted_df, hash_column, search_hash) ==
    {i \in 1..encrypted_df.n : encrypted_df.data[hash_column][i] = StrCell(search_hash)}

\* search_by_hash(encrypted_df, field, search_value)
SearchByHash(encrypted_df, field, search_value) ==
    LET hash_column == HashColumn(field) IN
        IF hash_column \notin ColumnSet(encrypted_df) THEN EmptyDataFrame
        ELSE SelectRows(encrypted_df,
                        HashMatches(encrypted_df, hash_column,
                                    HashForIndexing(search_value)))

(***************************************************************************)
(* Key Material Provider: _generate_or_load_key.                           *)
(***************************************************************************)
\* The content of encryption.key when the file does not exist.
NoFile == 0

\* master_password = None
NoPassword == 0

\* PBKDF2HMAC(SHA256, salt, 100000 iterations).derive(password), base64:
\* symbolic, one key per pair of password and salt (keys are 1..15).
DeriveKey(password, salt) == 1 + 2 * password + salt

\* Faulty variant of GenerateOrLoadKey: the key is derived and written even
\* when the file exists.
AlwaysDerive(key_file, password, token, salt) ==
    [key |-> DeriveKey(IF password = NoPassword THEN token ELSE password, salt),
     key_file |-> DeriveKey(IF password = NoPassword THEN token ELSE password, salt)]

\* _generate_or_load_key(password) with the file content key_file; token is
\* what secrets.token_urlsafe(32) returns and salt what os.urandom(16) returns.
\* Returns the key and the file content after the call.
GenerateOrLoadKey(key_file, password, token, salt) ==
    IF key_file # NoFile
    THEN [key |-> key_file, key_file |-> key_file]
    ELSE LET used == IF password = NoPassword THEN token ELSE password
             key == DeriveKey(used, salt)
         IN  [key |-> key, key_file |-> key]

(***************************************************************************)
(* Inputs of the model.                                                    *)
(***************************************************************************)
\* The characters of the generated texts: a space, a shell metacharacter,
\* the digit 0, the tag delimiters and a letter.
GenAlphabet == {CodeOf[" "], CodeOf["&"], CodeOf["0"],
                CodeOf["<"], CodeOf[">"], CodeOf["a"]}

RECURSIVE TextsOfLen(_)
TextsOfLen(k) ==
    IF k = 0 THEN {<<>>}
    ELSE {Append(t, c) : t \in TextsOfLen(k - 1), c \in GenAlphabet}

GenTexts == UNION {TextsOfLen(k) : k \in 0..MaxLen}

\* Texts chosen for the cases the generated ones are too short for.
LongText == Repeat("a", MaxFieldLen + 1)

\* A text over the limit that starts with a space.
PaddedLongText == Lit(<<" ">>) \o Repeat("a", MaxFieldLen)

SampleTexts ==
    { Lit(<<"1","2",".","3","4","5","/","0","0","0","1","-","9","0">>),
      Lit(<<"<","s","c","r","i","p","t",">","a","l","e","r","t","(","1",")",
            "<","/","s","c","r","i","p","t",">">>),
      Lit(<<"E","m","p","r","e","s","a",";"," ","D","R","O","P"," ","T","a","b","l","e">>),
      Lit(<<"$","{","7","}">>),
      Lit(<<"&","\t","&">>),
      Lit(<<"<",";",">">>),
      Lit(<<"d","r","<","b",">","o","p"," ","x">>),
      Lit(<<"<","b",">","a","<","/","b",">">>),
      Lit(<<"E","N","C",":","x">>),
      Lit(<<"<","b",">","E","N","C",":","x">>),
      BlockedContent,
      LongText,
      PaddedLongText }

\* Family 1: one record, one sensitive field, every generated and sample
\* text, a number and an absent value.
OneCellValues ==
    {StrCell(t) : t \in GenTexts \cup SampleTexts} \cup {NumCell(0), NumCell(12), NaN}

OneCellFrames ==
    { [columns |-> <<"Emitente CNPJ">>, n |-> 1,
       data |-> [c \in {"Emitente CNPJ"} |-> <<v>>]] : v \in OneCellValues }

\* Family 2: up to MaxRows records over two sensitive fields, a public
\* field and a field of no group, drawn from sample records.
TableColumns == <<"Emitente Nome", "Produto", "Emitente CNPJ", "Obs">>

Record(nome, produto, cnpj, obs) ==
    [c \in {"Emitente Nome", "Produto", "Emitente CNPJ", "Obs"} |->
        CASE c = "Emitente Nome" -> nome
          [] c = "Produto" -> produto
          [] c = "Emitente CNPJ" -> cnpj
          [] c = "Obs" -> obs]

SampleRecords ==
    { Record(StrCell(Lit(<<"a","b">>)), StrCell(Lit(<<"n","b">>)),
             StrCell(Lit(<<"1","2">>)), StrCell(Lit(<<"x">>))),
      Record(StrCell(Lit(<<"a",";","b">>)), StrCell(Lit(<<"a",";","b">>)),
             StrCell(Lit(<<" ","1","2">>)), StrCell(Lit(<<"E","N","C",":","x">>))),
      Record(NaN, NumCell(5), NumCell(12), NaN),
      Record(StrCell(Lit(<<"<","b",">">>)), StrCell(Lit(<<"n","b">>)),
             StrCell(Lit(<<"0">>)), StrCell(Lit(<<"<","b",">">>))) }

RECURSIVE RecordLists(_)
RecordLists(k) ==
    IF k = 0 THEN {<<>>}
    ELSE {Append(rs, r) : rs \in RecordLists(k - 1), r \in SampleRecords}

FrameOf(columns, records) ==
    [columns |-> columns, n |-> Len(records),
     data |-> [c \in {columns[i] : i \in 1..Len(columns)} |->
                  [i \in 1..Len(records) |-> records[i][c]]]]

TableFrames == {FrameOf(TableColumns, rs) : rs \in UNION {RecordLists(k) : k \in 0..MaxRows}}

InputFrames == OneCellFrames \cup TableFrames

\* The field lists reveal is called with: none, and a list of a sensitive
\* field, a public field and a field no record set has.
FieldLists ==
    { NoFields,
      Fields(<<"Emitente CNPJ", "Produto", "Destinatário Nome">>) }

\* The plaintexts search is called with, besides the original cell texts of
\* the field searched.
Queries == { Lit(<<"1","2">>), Zero, BlockedContent }

\* The passwords an engine is constructed with, and what the random
\* sources return.  Keys are interchangeable: no operation looks into one.
Passwords == {NoPassword}

RandomTokens == {2}

Salts == {0}

(***************************************************************************)
(* State.                                                                  *)
(***************************************************************************)
VARIABLES
    keyFile,   \* content of the file encryption.key (NoFile: no such file)
    engine,    \* the SecureDataProcessor instance
    now,       \* logical clock read by datetime.now()
    drawn,     \* number of IVs os.urandom has handed to Fernet: the next IV is fresh
    df,        \* the record set the caller extracted
    cur,       \* the record set the caller holds now: df, or the last protect / reveal result
    last,      \* the last call: operation, arguments, input and returned record set,
               \* and the record set passed as the caller finds it after the call
    prot,      \* the most recent protect call
    calls,     \* number of protect / reveal / search calls made
    keyFiles,  \* several working directories: the content of encryption.key in each
    fleet,     \* several engines: the instances constructed, in order
    outs,      \* several engines: the protect call each engine made on df
    shown,     \* several engines: the last reveal, by which engine of whose result
    inst,      \* concurrent construction: each instance's place in _generate_or_load_key
    thr,       \* concurrent protect: each thread's place in encrypt_sensitive_data
    val        \* the validator: its place in analisar_nfe and its locals

vars == <<keyFile, engine, now, drawn, df, cur, last, prot, calls,
          keyFiles, fleet, outs, shown, inst, thr, val>>

\* The variables of the scenarios with several engines, instances or threads
\* and of the validator.
sideVars == <<keyFiles, fleet, outs, shown, inst, thr, val>>

\* The working directories an engine is constructed in.
Dirs == {1, 2}

NoEngine ==
    [constructed |-> FALSE, encryption_key |-> NoFile,
     encryption_stats |-> InitialStats(0)]

\* No mapping returned by get_encryption_stats.
NoStats == [shared |-> FALSE, value |-> InitialStats(0)]

NoCall ==
    [op |-> "none", input |-> EmptyDataFrame, output |-> EmptyDataFrame,
     fields |-> NoFields, field |-> "", query |-> <<>>, raised |-> "None",
     stats |-> NoStats, passed |-> EmptyDataFrame]

\* No reveal made yet.
NoShown == [by |-> 0, of |-> 0, call |-> NoCall]

\* One engine, one caller: nothing runs beside it.
Alone ==
    /\ keyFiles = [d \in Dirs |-> NoFile]
    /\ fleet = <<>>
    /\ outs = <<>>
    /\ shown = NoShown
    /\ inst = <<>>
    /\ thr = <<>>
    /\ val = <<>>

Init ==
    /\ keyFile = NoFile
    /\ engine = NoEngine
    /\ now = 0
    /\ drawn = 0
    /\ df \in InputFrames
    /\ cur = df
    /\ last = NoCall
    /\ prot = NoCall
    /\ calls = 0
    /\ Alone

\* SecureDataProcessor(master_password): __init__.
Construct(password, token, salt) ==
    /\ ~engine.constructed
    /\ LET k == GenerateOrLoadKey(keyFile, password, token, salt) IN
         /\ keyFile' = k.key_file
         /\ engine' = [constructed |-> TRUE, encryption_key |-> k.key,
                       encryption_stats |-> InitialStats(now)]
    /\ now' = now + 1
    /\ UNCHANGED <<drawn, df, cur, last, prot, calls, sideVars>>

\* The engine and the caller after encrypt_sensitive_data returned r.
ProtectDone(r) ==
    /\ engine' = [engine EXCEPT !.encryption_stats = r.stats]
    /\ cur' = r.df
    /\ last' = [NoCall EXCEPT !.op = "protect", !.input = cur, !.output = r.df,
                              !.passed = ArgumentAfter(cur, r.df)]
    /\ prot' = [NoCall EXCEPT !.op = "protect", !.input = cur, !.output = r.df,
                              !.passed = ArgumentAfter(cur, r.df)]
    /\ drawn' = drawn + (r.stats.encrypted_fields
                           - engine.encryption_stats.encrypted_fields)

\* cur = engine.encrypt_sensitive_data(cur)
Protect ==
    /\ engine.constructed
    /\ calls < MaxCalls
    /\ ProtectDone(EncryptSensitiveData(engine.encryption_key, engine.encryption_stats,
                                        cur, drawn, now))
    /\ now' = now + 1
    /\ calls' = calls + 1
    /\ UNCHANGED <<keyFile, df, sideVars>>

\* cur = engine.decrypt_sensitive_data(cur, fields)
Reveal(fields) ==
    /\ engine.constructed
    /\ calls < MaxCalls
    /\ LET r == DecryptSensitiveData(engine.encryption_key, cur, fields) IN
           /\ cur' = r
           /\ last' = [NoCall EXCEPT !.op = "reveal", !.input = cur, !.output = r,
                                     !.fields = fields,
                                     !.passed = ArgumentAfter(cur, r)]
    /\ calls' = calls + 1
    /\ UNCHANGED <<keyFile, engine, now, drawn, df, prot, sideVars>>

\* The plaintexts searched for in the hash index of "Emitente CNPJ": the
\* fixed queries and the original cell texts of the field.
QueriesFor(field) ==
    Queries \cup (IF field \in ColumnSet(df)
                  THEN {PyStr(df.data[field][i]) : i \in 1..df.n}
                  ELSE {})

\* The searches made: the sensitive field by every query, and a public
\* field (which never has a hash column).
SearchCalls ==
    {<<"Emitente CNPJ", q>> : q \in QueriesFor("Emitente CNPJ")}
        \cup {<<"Produto", Lit(<<"n","b">>)>>}

\* engine.search_by_hash(cur, field, query)
Search(field, query) ==
    /\ engine.constructed
    /\ calls < MaxCalls
    /\ last' = [NoCall EXCEPT !.op = "search", !.input = cur,
                              !.output = SearchByHash(cur, field, query),
                              !.field = field, !.query = query,
                              !.passed = cur]
    /\ calls' = calls + 1
    /\ UNCHANGED <<keyFile, engine, now, drawn, df, cur, prot, sideVars>>

Next ==
    \/ \E password \in Passwords, token \in RandomTokens, salt \in Salts :
          Construct(password, token, salt)
    \/ Protect
    \/ \E fields \in FieldLists : Reveal(fields)
    \/ \E call \in SearchCalls : Search(call[1], call[2])

Spec == Init /\ [][Next]_vars

(***************************************************************************)
(* A failing cipher.  cipher_suite.encrypt (line 192) is called with no    *)
(* try / except around it: when it raises, at the k-th encryption of a     *)
(* call, the exception leaves encrypt_sensitive_data.  The counters        *)
(* updated so far stay updated; encrypted_df, a local copy, is lost.       *)
(***************************************************************************)
\* The guarded sensitive cells of records in the order the loops of lines 172 and
\* 177 visit them: column by column, record by record.
GuardedInOrder(records, sensitive_columns) ==
    [j \in 1..(Len(sensitive_columns) * records.n) |->
        GuardCell(records.data[sensitive_columns[((j - 1) \div records.n) + 1]][((j - 1) % records.n) + 1])]

\* The place in g of the k-th cell that is encrypted.
FailingCell(g, k) == CHOOSE j \in 1..Len(g) : g[j].encrypt /\ EncryptedUpTo(g, j) = k

\* The counters when the k-th encryption of the call raised: line 152 ran,
\* the cells up to the failing one were checked (lines 114, 185) and the
\* ones before it encrypted (line 200).
StatsAtFailure(stats, n, g, k) ==
    [stats EXCEPT
        !.total_records = n,
        !.encrypted_fields = @ + (k - 1),
        !.blocked_injections =
            @ + 2 * Cardinality({j \in 1..FailingCell(g, k) : g[j].blocked})]

\* What the exception of the cipher is to the caller.
CipherFailure == "Exception"

\* Faulty variant of RaisedCall: the failure is swallowed and the record set
\* is returned as it was given, plaintext included.
PlaintextFallback(records) == [NoCall EXCEPT !.op = "protect", !.input = records, !.output = records]

\* The call whose cipher raised: the exception propagates, nothing is
\* returned.
RaisedCall(records) == [NoCall EXCEPT !.op = "protect", !.input = records, !.raised = CipherFailure]

\* The number of encryptions a protect of records makes.
Encryptions(records) ==
    EncryptedUpTo(GuardedInOrder(records, SensitiveColumns(records)),
                  Len(GuardedInOrder(records, SensitiveColumns(records))))

\* cur = engine.encrypt_sensitive_data(cur), the k-th encryption raising: the
\* assignment to cur does not happen.
ProtectFails(k) ==
    /\ engine.constructed
    /\ calls < MaxCalls
    /\ calls' = calls + 1
    /\ drawn' = drawn + (k - 1)
    /\ last' = RaisedCall(cur)
    /\ cur' = IF last'.raised = "None" THEN last'.output ELSE cur
    /\ UNCHANGED <<keyFile, now, df, prot, sideVars>>
    /\ k \in 1..Encryptions(cur)
    /\ engine' = [engine EXCEPT !.encryption_stats =
                      StatsAtFailure(@, cur.n, GuardedInOrder(cur, SensitiveColumns(cur)), k)]

\* The encryption that fails: a protect of a table encrypts up to two cells
\* per record.  The caller makes no further call after a failure.
FailurePoints == 1..(2 * MaxRows)

\* The record sets protected with a failing cipher: the tables, and the
\* sample texts in one sensitive cell.
FailureFrames ==
    TableFrames \cup
    { [columns |-> <<"Emitente CNPJ">>, n |-> 1,
       data |-> [c \in {"Emitente CNPJ"} |-> <<StrCell(t)>>]] :
           t \in SampleTexts \ {LongText, PaddedLongText} }

InitFailure ==
    /\ keyFile = NoFile
    /\ engine = NoEngine
    /\ now = 0
    /\ drawn = 0
    /\ df \in FailureFrames
    /\ cur = df
    /\ last = NoCall
    /\ prot = NoCall
    /\ calls = 0
    /\ Alone

NextFailure ==
    \/ \E password \in Passwords, token \in RandomTokens, salt \in Salts :
          Construct(password, token, salt)
    \/ last.raised = "None" /\ Protect
    \/ \E k \in FailurePoints : last.raised = "None" /\ ProtectFails(k)

SpecFailure == InitFailure /\ [][NextFailure]_vars

(***************************************************************************)
(* Several engines.  An engine is constructed in a working directory and   *)
(* finds or leaves its key in the file encryption.key there (a relative    *)
(* path, line 62); the callers construct a fresh engine per request.  Each *)
(* engine protects the record set df once, and any engine reveals what any *)
(* engine protected.                                                       *)
(***************************************************************************)
MaxEngines == 2

\* The passphrases the engines are constructed with.
FleetPasswords == {NoPassword, 1}

\* What secrets.token_urlsafe returns to the k-th construction: a fresh
\* token each time.
FreshToken(k) == 1 + k

\* The record sets the engines protect: the ones whose first record holds
\* text with the marker in a field of no group.
FleetFrames ==
    {f \in TableFrames :
        f.n >= 1 /\ f.data["Obs"][1] = StrCell(Lit(<<"E","N","C",":","x">>))}

InitFleet ==
    /\ keyFile = NoFile
    /\ engine = NoEngine
    /\ now = 0
    /\ drawn = 0
    /\ df \in FleetFrames
    /\ cur = df
    /\ last = NoCall
    /\ prot = NoCall
    /\ calls = 0
    /\ keyFiles = [d \in Dirs |-> NoFile]
    /\ fleet = <<>>
    /\ outs = <<>>
    /\ shown = NoShown
    /\ inst = <<>>
    /\ thr = <<>>
    /\ val = <<>>

\* The instance __init__ makes of the key k it was given.
NewEngine(dir, password, k, clock) ==
    [dir |-> dir, password |-> password, encryption_key |-> k.key,
     encryption_stats |-> InitialStats(clock)]

\* SecureDataProcessor(password) in the working directory dir, the first
\* engine in directory 1.  The engines are constructed before the protect
\* calls are made; the clock is read, and ticks with the protect calls.
ConstructIn(dir, password, token, salt) ==
    /\ Len(fleet) < MaxEngines
    /\ \A e \in 1..Len(fleet) : outs[e] = NoCall
    /\ fleet = <<>> => dir = 1
    /\ keyFiles' = [keyFiles EXCEPT ![dir] =
                       GenerateOrLoadKey(keyFiles[dir], password, token, salt).key_file]
    /\ fleet' = Append(fleet,
                   NewEngine(dir, password,
                             GenerateOrLoadKey(keyFiles[dir], password, token, salt), now))
    /\ outs' = Append(outs, NoCall)
    /\ UNCHANGED <<keyFile, engine, now, drawn, df, cur, last, prot, calls, shown, inst, thr, val>>

\* Engine e after encrypt_sensitive_data returned r.
ProtectedBy(e, r) ==
    /\ fleet' = [fleet EXCEPT ![e].encryption_stats = r.stats]
    /\ outs' = [outs EXCEPT ![e] =
                   [NoCall EXCEPT !.op = "protect", !.input = df, !.output = r.df]]
    /\ drawn' = drawn + (r.stats.encrypted_fields
                           - fleet[e].encryption_stats.encrypted_fields)

\* fleet[e].encrypt_sensitive_data(df): the engines protect df once each, in
\* the order of their construction.
ProtectBy(e) ==
    /\ e \in 1..Len(fleet)
    /\ outs[e] = NoCall
    /\ \A earlier \in 1..(e - 1) : outs[earlier] # NoCall
    /\ shown = NoShown
    /\ ProtectedBy(e, EncryptSensitiveData(fleet[e].encryption_key,
                                           fleet[e].encryption_stats, df, drawn, now))
    /\ now' = now + 1
    /\ UNCHANGED <<keyFile, engine, df, cur, last, prot, calls, keyFiles, shown, inst, thr, val>>

\* fleet[e].decrypt_sensitive_data(outs[o].output).  The reveals are made
\* after the constructions and the protect calls.
RevealBy(e, o) ==
    /\ e \in 1..Len(fleet)
    /\ o \in 1..Len(fleet)
    /\ outs[o] # NoCall
    /\ shown' = [by |-> e, of |-> o,
                 call |-> [NoCall EXCEPT
                     !.op = "reveal", !.input = outs[o].output,
                     !.output = DecryptSensitiveData(fleet[e].encryption_key,
                                                     outs[o].output, NoFields)]]
    /\ UNCHANGED <<keyFile, engine, now, drawn, df, cur, last, prot, calls,
                   keyFiles, fleet, outs, inst, thr, val>>

NextFleet ==
    \/ \E dir \in Dirs, password \in FleetPasswords, salt \in Salts :
          ConstructIn(dir, password, FreshToken(Len(fleet) + 1), salt)
    \/ \E e \in 1..MaxEngines : ProtectBy(e)
    \/ \E e \in 1..MaxEngines, o \in 1..MaxEngines : RevealBy(e, o)

SpecFleet == InitFleet /\ [][NextFleet]_vars

(***************************************************************************)
(* Concurrent construction.  Several processes construct an engine in one  *)
(* working directory at the same time; _generate_or_load_key takes no lock *)
(* and opens the file with mode 'wb', so its steps interleave: the test of *)
(* line 64, the read of lines 66-67, the derivation of lines 70-83 and the *)
(* write of lines 86-87.  A write is taken as one step.                    *)
(***************************************************************************)
MaxInstances == 2

Instances == 1..MaxInstances

\* What os.urandom(16) returns to an instance.
StartupSalts == {0, 1}

\* The instance p before its construction starts, given a passphrase.
Starting(password) ==
    [pc |-> "exists", password |-> password, key |-> NoFile, encryption_key |-> NoFile]

InitStartup ==
    /\ keyFile = NoFile
    /\ engine = NoEngine
    /\ now = 0
    /\ drawn = 0
    /\ df = EmptyDataFrame
    /\ cur = df
    /\ last = NoCall
    /\ prot = NoCall
    /\ calls = 0
    /\ keyFiles = [d \in Dirs |-> NoFile]
    /\ fleet = <<>>
    /\ outs = <<>>
    /\ shown = NoShown
    /\ inst \in [Instances -> {Starting(password) : password \in FleetPasswords}]
    /\ thr = <<>>
    /\ val = <<>>

\* The variables that concurrent construction leaves alone.
notStartup ==
    <<engine, now, drawn, df, cur, last, prot, calls, keyFiles, fleet, outs, shown, thr, val>>

\* Line 64: if os.path.exists(key_file)
Exists(p) ==
    /\ inst[p].pc = "exists"
    /\ inst' = [inst EXCEPT ![p].pc = IF keyFile # NoFile THEN "load" ELSE "derive"]
    /\ UNCHANGED <<keyFile, notStartup>>

\* Lines 66-67 and 48: return f.read()
Load(p) ==
    /\ inst[p].pc = "load"
    /\ inst' = [inst EXCEPT ![p].pc = "done", ![p].encryption_key = keyFile]
    /\ UNCHANGED <<keyFile, notStartup>>

\* Lines 70-83: the passphrase or a fresh token, a random salt, the key.
Derive(p, token, salt) ==
    /\ inst[p].pc = "derive"
    /\ inst' = [inst EXCEPT
                   ![p].pc = "write",
                   ![p].key = DeriveKey(IF inst[p].password = NoPassword THEN token
                                        ELSE inst[p].password, salt)]
    /\ UNCHANGED <<keyFile, notStartup>>

\* Lines 86-90 and 48: the key is written to the file and returned.
Write(p) ==
    /\ inst[p].pc = "write"
    /\ keyFile' = inst[p].key
    /\ inst' = [inst EXCEPT ![p].pc = "done", ![p].encryption_key = inst[p].key]
    /\ UNCHANGED notStartup

NextStartup ==
    \/ \E p \in Instances : Exists(p)
    \/ \E p \in Instances : Load(p)
    \/ \E p \in Instances, salt \in StartupSalts : Derive(p, FreshToken(p), salt)
    \/ \E p \in Instances : Write(p)

SpecStartup == InitStartup /\ [][NextStartup]_vars

(***************************************************************************)
(* Concurrent protect.  Several threads call encrypt_sensitive_data on one *)
(* engine, each with its own record set.  encryption_stats is shared and   *)
(* no lock is taken: a statement counter += 1 reads the counter and then   *)
(* stores the value read plus one, and another thread can run in between.  *)
(* The record set a thread builds is its own and is left out.              *)
(***************************************************************************)
MaxThreads == 2

Threads == 1..MaxThreads

\* The increments the loop makes for one guarded cell, in order: lines 114
\* and 185 for a blocked cell, line 200 for an encrypted one.
CellIncrements(g) ==
    (IF g.blocked THEN <<"blocked_injections", "blocked_injections">> ELSE <<>>)
        \o (IF g.encrypt THEN <<"encrypted_fields">> ELSE <<>>)

\* The increments of the cells g[1..upto], in order.
RECURSIVE IncrementsUpTo(_, _)
IncrementsUpTo(g, upto) ==
    IF upto = 0 THEN <<>>
    ELSE IncrementsUpTo(g, upto - 1) \o CellIncrements(g[upto])

\* The increments a protect of records makes.
Increments(records) ==
    IncrementsUpTo(GuardedInOrder(records, SensitiveColumns(records)),
                   Len(GuardedInOrder(records, SensitiveColumns(records))))

\* The record sets the threads protect: a cell that is encrypted, a cell
\* that is blocked, and a record with both.
ThreadFrames ==
    {f \in InputFrames :
        \/ /\ f.columns = <<"Emitente CNPJ">>
           /\ f.data["Emitente CNPJ"][1] \in
                  {NumCell(12), StrCell(Lit(<<"$","{","7","}">>)), NaN}
        \/ /\ f.columns = TableColumns
           /\ f.n = 1
           /\ f.data["Emitente Nome"][1] = StrCell(Lit(<<"a",";","b">>))}

\* A thread about to call encrypt_sensitive_data(records).
Calling(records) ==
    [pc |-> "begin", records |-> records, pending |-> <<>>, read |-> 0]

InitThreads ==
    /\ keyFile = DeriveKey(FreshToken(1), 0)
    /\ engine = [constructed |-> TRUE, encryption_key |-> keyFile,
                 encryption_stats |-> InitialStats(0)]
    /\ now = 1
    /\ drawn = 0
    /\ df = EmptyDataFrame
    /\ cur = df
    /\ last = NoCall
    /\ prot = NoCall
    /\ calls = 0
    /\ keyFiles = [d \in Dirs |-> NoFile]
    /\ fleet = <<>>
    /\ outs = <<>>
    /\ shown = NoShown
    /\ inst = <<>>
    /\ thr \in [Threads -> {Calling(f) : f \in ThreadFrames}]
    /\ val = <<>>

\* The variables that the counter updates leave alone.
notThreads ==
    <<keyFile, now, drawn, df, cur, last, prot, calls, keyFiles, fleet, outs, shown, inst,
      val>>

\* Line 152: total_records = len(df); the loop starts.
Begin(t) ==
    /\ thr[t].pc = "begin"
    /\ engine' = [engine EXCEPT !.encryption_stats.total_records = thr[t].records.n]
    /\ thr' = [thr EXCEPT ![t].pc = "loop", ![t].pending = Increments(thr[t].records)]
    /\ UNCHANGED notThreads

\* counter += 1, first half: the counter is read.
ReadCounter(t) ==
    /\ thr[t].pc = "loop"
    /\ thr[t].pending # <<>>
    /\ thr' = [thr EXCEPT ![t].pc = "store",
                          ![t].read = engine.encryption_stats[Head(thr[t].pending)]]
    /\ UNCHANGED <<engine, notThreads>>

\* counter += 1, second half: the value read plus one is stored.
StoreCounter(t) ==
    /\ thr[t].pc = "store"
    /\ engine' = [engine EXCEPT
                     !.encryption_stats[Head(thr[t].pending)] = thr[t].read + 1]
    /\ thr' = [thr EXCEPT ![t].pc = "loop", ![t].pending = Tail(thr[t].pending),
                          ![t].read = 0]
    /\ UNCHANGED notThreads

\* Line 210: public_fields = len(public_columns); the call returns.
Finish(t) ==
    /\ thr[t].pc = "loop"
    /\ thr[t].pending = <<>>
    /\ engine' = [engine EXCEPT
                     !.encryption_stats.public_fields = Len(PublicColumns(thr[t].records))]
    /\ thr' = [thr EXCEPT ![t].pc = "done"]
    /\ UNCHANGED notThreads

NextThreads ==
    \/ \E t \in Threads : Begin(t)
    \/ \E t \in Threads : ReadCounter(t)
    \/ \E t \in Threads : StoreCounter(t)
    \/ \E t \in Threads : Finish(t)

SpecThreads == InitThreads /\ [][NextThreads]_vars

(***************************************************************************)
(* The accessor of the audit counters.  get_encryption_stats returns a     *)
(* mapping; the caller may then write into what it was given.  Whether     *)
(* such a write reaches the engine depends on the mapping being the        *)
(* engine's own dict or a copy of it.                                      *)
(***************************************************************************)
\* Faulty variant of GetEncryptionStats: the engine's own dict is returned.
StatsByReference(stats) == [shared |-> TRUE, value |-> stats]

\* get_encryption_stats(): self.encryption_stats.copy()
GetEncryptionStats(stats) == [shared |-> FALSE, value |-> stats]

\* got = engine.get_encryption_stats()
GetStats ==
    /\ engine.constructed
    /\ calls < MaxCalls
    /\ last' = [NoCall EXCEPT !.op = "stats",
                              !.stats = GetEncryptionStats(engine.encryption_stats)]
    /\ calls' = calls + 1
    /\ UNCHANGED <<keyFile, engine, now, drawn, df, cur, prot, sideVars>>

\* The counters a caller writes into.
WrittenCounters == {"encrypted_fields", "blocked_injections"}

\* got[name] += 1, by the caller, on the mapping it was returned.
ModifyReturned(name) ==
    /\ last.op = "stats"
    /\ last' = [last EXCEPT !.op = "modify", !.stats.value[name] = @ + 1]
    /\ engine' = IF last.stats.shared
                 THEN [engine EXCEPT !.encryption_stats[name] = @ + 1]
                 ELSE engine
    /\ UNCHANGED <<keyFile, now, drawn, df, cur, prot, calls, sideVars>>

\* The record sets of the engine whose counters are read: the ones the
\* threads protect.
InitAudit ==
    /\ keyFile = NoFile
    /\ engine = NoEngine
    /\ now = 0
    /\ drawn = 0
    /\ df \in ThreadFrames
    /\ cur = df
    /\ last = NoCall
    /\ prot = NoCall
    /\ calls = 0
    /\ Alone

NextAudit ==
    \/ \E password \in Passwords, token \in RandomTokens, salt \in Salts :
          Construct(password, token, salt)
    \/ Protect
    \/ \E fields \in FieldLists : Reveal(fields)
    \/ \E call \in SearchCalls : Search(call[1], call[2])
    \/ GetStats
    \/ \E name \in WrittenCounters : ModifyReturned(name)

SpecAudit == InitAudit /\ [][NextAudit]_vars

(***************************************************************************)
(* A downstream consumer: ValidadorFiscal.analisar_nfe                     *)
(* (src/agents/validador.py).  It is given the protected header and the    *)
(* protected products of an invoice, reveals both with its own engine,     *)
(* which loaded the key of the file, formats them and sends the texts to   *)
(* the chain of the external language model.                               *)
(***************************************************************************)
\* campos_importantes of _formatar_cabecalho
CamposImportantes ==
    <<"CNPJ", "UF", "Natureza da Operação", "CFOP", "Data", "Valor Total">>

\* colunas_fiscais of _formatar_produtos
ColunasFiscais ==
    << "Produto", "NCM", "CFOP", "Quantidade", "Valor Unitário", "Valor Total",
       "Alíquota ICMS", "Valor ICMS", "Alíquota PIS", "Valor PIS",
       "Alíquota COFINS", "Valor COFINS", "Alíquota IPI", "Valor IPI" >>

\* list(produtos_df.columns)[:10]
ColumnLimit == 10

\* .head(20)
HeadLimit == 20

\* DataFrame.empty: no records or no columns.
IsEmpty(records) == records.n = 0 \/ records.columns = <<>>

\* The text to_string and an f-string print for a cell.
Printed(cell) == IF cell.t = "nan" THEN Lit(<<"N", "a", "N">>) ELSE PyStr(cell)

\* _formatar_cabecalho: the important fields the first record has a value
\* for, each with the text of the value; a fixed text when there is none.
FormatarCabecalho(cabecalho) ==
    IF IsEmpty(cabecalho) THEN [text |-> "Cabeçalho não disponível", fields |-> <<>>, cells |-> <<>>]
    ELSE LET present == SelectSeq(CamposImportantes,
                            LAMBDA campo : /\ campo \in ColumnSet(cabecalho)
                                           /\ NotNa(cabecalho.data[campo][1]))
         IN  IF present = <<>>
             THEN [text |-> "Dados básicos do cabeçalho", fields |-> <<>>, cells |-> <<>>]
             ELSE [text |-> "", fields |-> present,
                   cells |-> <<[k \in 1..Len(present) |-> Printed(cabecalho.data[present[k]][1])]>>]

\* colunas_existentes of _formatar_produtos: the fiscal columns present, or
\* the first columns of the record set when there is none.
ColunasExistentes(produtos) ==
    IF SelectSeq(ColunasFiscais, LAMBDA col : col \in ColumnSet(produtos)) # <<>>
    THEN SelectSeq(ColunasFiscais, LAMBDA col : col \in ColumnSet(produtos))
    ELSE Slice(produtos.columns, 1,
               IF Len(produtos.columns) < ColumnLimit THEN Len(produtos.columns) ELSE ColumnLimit)

\* _formatar_produtos: the first records, the columns chosen, every cell
\* as to_string prints it.
FormatarProdutos(produtos) ==
    IF IsEmpty(produtos) THEN [text |-> "Nenhum produto encontrado", fields |-> <<>>, cells |-> <<>>]
    ELSE [text |-> "Total de produtos", fields |-> ColunasExistentes(produtos),
          cells |-> [i \in 1..(IF produtos.n < HeadLimit THEN produtos.n ELSE HeadLimit) |->
                        [k \in 1..Len(ColunasExistentes(produtos)) |->
                            Printed(produtos.data[ColunasExistentes(produtos)[k]][i])]]]

\* What the chain answers: a dict, something else, or an exception.
ChainAnswers == {"dict", "other", "raise"}

\* The key the engines of the application share through encryption.key.
SharedKey == DeriveKey(FreshToken(1), 0)

\* What the view protected and hands to the validator.
HandedOver(records) == EncryptSensitiveData(SharedKey, InitialStats(0), records, 0, 1).df

\* The headers and the products of the invoices analysed: one sample
\* record; products also without any fiscal column.
HeaderFrames == {HandedOver(f) : f \in {t \in TableFrames : t.n = 1}}

ProductFrames ==
    {HandedOver(f) : f \in {t \in InputFrames :
        \/ t.columns = TableColumns /\ t.n = 1
        \/ t.columns = <<"Emitente CNPJ">> /\ t.data["Emitente CNPJ"][1] = NumCell(12)}}

\* analisar_nfe(cabecalho_df, produtos_df) about to run; chain is whether
\* _inicializar_llm_chain built the chain.
Analysing(chain, cabecalho_df, produtos_df) ==
    [pc |-> "start", chain |-> chain,
     cabecalho_df |-> cabecalho_df, produtos_df |-> produtos_df,
     cabecalho |-> EmptyDataFrame, produtos |-> EmptyDataFrame,
     reveals |-> <<>>,
     dados_cabecalho |-> <<>>, dados_produtos |-> <<>>,
     invoked |-> FALSE, result |-> "none"]

InitValidador ==
    /\ keyFile = SharedKey
    /\ engine = [constructed |-> TRUE, encryption_key |-> keyFile,
                 encryption_stats |-> InitialStats(1)]
    /\ now = 2
    /\ drawn = 0
    /\ df = EmptyDataFrame
    /\ cur = df
    /\ last = NoCall
    /\ prot = NoCall
    /\ calls = 0
    /\ keyFiles = [d \in Dirs |-> NoFile]
    /\ fleet = <<>>
    /\ outs = <<>>
    /\ shown = NoShown
    /\ inst = <<>>
    /\ thr = <<>>
    /\ val \in {Analysing(chain, c, p) :
                    chain \in BOOLEAN, c \in HeaderFrames, p \in ProductFrames}

\* The variables analisar_nfe leaves alone: reveal changes no counter.
notValidador ==
    <<keyFile, engine, now, drawn, df, cur, last, prot, calls,
      keyFiles, fleet, outs, shown, inst, thr>>

\* Lines 199-200: without a chain the error result is returned.
ChainMissing ==
    /\ val.pc = "start"
    /\ ~val.chain
    /\ val' = [val EXCEPT !.pc = "returned", !.result = "erro_chain_nao_inicializada"]
    /\ UNCHANGED notValidador

\* Line 203: cabecalho = self.processor.decrypt_sensitive_data(cabecalho_df)
RevealCabecalho ==
    /\ val.pc = "start"
    /\ val.chain
    /\ val' = [val EXCEPT
                  !.pc = "cabecalho",
                  !.cabecalho = DecryptSensitiveData(engine.encryption_key,
                                                     val.cabecalho_df, NoFields),
                  !.reveals = Append(@, NoFields)]
    /\ UNCHANGED notValidador

\* Line 204: produtos = self.processor.decrypt_sensitive_data(produtos_df)
RevealProdutos ==
    /\ val.pc = "cabecalho"
    /\ val' = [val EXCEPT
                  !.pc = "produtos",
                  !.produtos = DecryptSensitiveData(engine.encryption_key,
                                                    val.produtos_df, NoFields),
                  !.reveals = Append(@, NoFields)]
    /\ UNCHANGED notValidador

\* Lines 207-209: the texts of the prompt.
Formatar ==
    /\ val.pc = "produtos"
    /\ val' = [val EXCEPT
                  !.pc = "prompt",
                  !.dados_cabecalho = FormatarCabecalho(val.cabecalho),
                  !.dados_produtos = FormatarProdutos(val.produtos)]
    /\ UNCHANGED notValidador

\* Lines 212-231: the texts go to the chain; its answer decides the result.
Invoke(answer) ==
    /\ val.pc = "prompt"
    /\ val' = [val EXCEPT
                  !.pc = "returned",
                  !.invoked = TRUE,
                  !.result = CASE answer = "dict" -> "resultado"
                               [] answer = "other" -> "erro_formato_resposta"
                               [] answer = "raise" -> "erro_analise"]
    /\ UNCHANGED notValidador

NextValidador ==
    \/ ChainMissing
    \/ RevealCabecalho
    \/ RevealProdutos
    \/ Formatar
    \/ \E answer \in ChainAnswers : Invoke(answer)

SpecValidador == InitValidador /\ [][NextValidador]_vars

(***************************************************************************)
(* Properties of encrypt_sensitive_data (protect).  They are stated on the *)
(* last call: last.input is the record set protect was given, last.output  *)
(* the one it returned.                                                    *)
(***************************************************************************)
Protected == last.op = "protect"

IsMetadataColumn(c) == \E i \in 1..Len(MetadataColumns) : MetadataColumns[i] = c

\* c is the hash sibling of a sensitive field that records has.
IsHashSibling(records, c) ==
    \E i \in 1..Len(SensitiveFields) :
        /\ SensitiveFields[i] \in ColumnSet(records)
        /\ c = HashColumn(SensitiveFields[i])

\* C1 as stated: protect returns every cell of every field that is in no
\* sensitive group identical to the input cell.  A record set that was
\* protected before has hash and metadata columns, fields of no group, and
\* protecting it again rewrites them.
C1_AsStated ==
    Protected =>
        \A c \in ColumnSet(last.input) :
            ~IsSensitiveField(c) =>
                /\ c \in ColumnSet(last.output)
                /\ last.output.data[c] = last.input.data[c]

\* C1: protect returns every cell of every field that is in no sensitive
\* group identical to the input cell, except for the fields protect itself
\* writes: the hash sibling of a sensitive field present and the four
\* metadata columns.
C1_PublicFieldsUntouched ==
    Protected =>
        \A c \in ColumnSet(last.input) :
            (~IsSensitiveField(c) /\ ~IsHashSibling(last.input, c) /\ ~IsMetadataColumn(c)) =>
                /\ c \in ColumnSet(last.output)
                /\ last.output.data[c] = last.input.data[c]

\* A record set protected before, with records and with a public field and
\* a field of no group, has been protected again.
C1_Witness ==
    /\ Protected
    /\ last.input.n > 0
    /\ {"Produto", "Obs", "Emitente CNPJ_hash", "_encrypted_timestamp"}
           \subseteq ColumnSet(last.input)
    /\ last.output.data["Produto"] = last.input.data["Produto"]
    /\ last.output.data["_encrypted_timestamp"] # last.input.data["_encrypted_timestamp"]

\* The sensitive fields of the record set protect was given.
ProtectedFields == {c \in ColumnSet(last.input) : IsSensitiveField(c)}

Rows(records) == 1..records.n

\* The text of a cell, as protect coerces it (line 179).
InputText(c, i) == Coerce(last.input.data[c][i])

\* The cell protect returned, and its hash sibling.
OutputCell(c, i) == last.output.data[c][i]

OutputHash(c, i) == last.output.data[HashColumn(c)][i]

IsToken(cell) == cell.t = "str" /\ StartsWith(cell.s, EncMarker)

\* What the engine's key decrypts the token in a cell to.
Plaintext(cell) == DecryptValue(engine.encryption_key, cell.s)

IsTrivial(text) == text = <<>> \/ text = Zero

\* C2 as stated: after protect, every cell of a sensitive field present is
\* a token beginning with ENC:, or it is the sanitized form of the input
\* cell, which is then the empty string or "0".  Line 202 stores the text
\* before sanitization, so it fails for a text such as "<b>" or " 0".
C2_SensitiveCellsTokenOrSanitized ==
    Protected =>
        \A c \in ProtectedFields : \A i \in Rows(last.input) :
            \/ IsToken(OutputCell(c, i))
            \/ /\ OutputCell(c, i) = StrCell(SanitizeInput(InputText(c, i)))
               /\ IsTrivial(SanitizeInput(InputText(c, i)))

\* C4 as stated: the plaintext of every cell protect encrypted, which is
\* what revealing the cell yields, matches no injection pattern.  The check
\* of line 182 runs on the text before sanitization, and sanitization can
\* produce a match: "&<TAB>&" becomes "&&".
C4_NoHostilePlaintextEncrypted ==
    Protected =>
        \A c \in ProtectedFields : \A i \in Rows(last.input) :
            IsToken(OutputCell(c, i)) => ~MatchesInjection(Plaintext(OutputCell(c, i)))

\* C5: a sensitive cell whose text, coerced to str, matches an injection
\* pattern becomes a token that decrypts to the sentinel [BLOCKED_CONTENT],
\* its hash cell is the hash of the sentinel, and protect raises nothing.
C5_MatchedCellHoldsSentinel ==
    Protected =>
        /\ last.raised = "None"
        /\ \A c \in ProtectedFields : \A i \in Rows(last.input) :
               MatchesInjection(InputText(c, i)) =>
                   /\ IsToken(OutputCell(c, i))
                   /\ Plaintext(OutputCell(c, i)) = BlockedContent
                   /\ OutputHash(c, i) = StrCell(HashForIndexing(BlockedContent))

\* A script element in a sensitive cell has been protected.
C5_Witness ==
    /\ Protected
    /\ \E c \in ProtectedFields : \E i \in Rows(last.input) :
           /\ Contains(Lower(InputText(c, i)), ScriptOpen)
           /\ MatchesInjection(InputText(c, i))
           /\ Plaintext(OutputCell(c, i)) = BlockedContent

\* C6 as stated: no cell of any field of the record set protect returned
\* matches an injection pattern.  The cells of the other fields are
\* returned as they were given, whatever they hold.
C6_AsStated ==
    Protected =>
        \A c \in ColumnSet(last.output) : \A i \in Rows(last.output) :
            ~MatchesInjection(PyStr(OutputCell(c, i)))

\* C6: in the record set protect returned, no cell of a sensitive field, of
\* the hash sibling of one or of a metadata column matches an injection
\* pattern.
C6_NoHostileTextInWrittenCells ==
    Protected =>
        \A c \in ColumnSet(last.output) : \A i \in Rows(last.output) :
            (IsSensitiveField(c) \/ IsHashSibling(last.input, c) \/ IsMetadataColumn(c)) =>
                ~MatchesInjection(PyStr(OutputCell(c, i)))

\* A record with hostile text in a sensitive field and in a public field
\* has been protected: only the public cell still holds it.
C6_Witness ==
    /\ Protected
    /\ \E i \in Rows(last.input) :
           /\ "Emitente Nome" \in ProtectedFields
           /\ MatchesInjection(InputText("Emitente Nome", i))
           /\ ~MatchesInjection(PyStr(OutputCell("Emitente Nome", i)))
           /\ "Produto" \in ColumnSet(last.output)
           /\ MatchesInjection(PyStr(OutputCell("Produto", i)))

\* C7: after protect, the hash sibling of a sensitive cell is non-empty
\* exactly when the cell was encrypted, and is then the hash of the
\* sanitized plaintext that was encrypted; otherwise it is "".
C7_HashIffEncrypted ==
    Protected =>
        \A c \in ProtectedFields : \A i \in Rows(last.input) :
            /\ HashColumn(c) \in ColumnSet(last.output)
            /\ (OutputHash(c, i) # StrCell(<<>>)) <=> IsToken(OutputCell(c, i))
            /\ IsToken(OutputCell(c, i)) =>
                   /\ OutputHash(c, i) = StrCell(HashForIndexing(Plaintext(OutputCell(c, i))))
                   /\ Plaintext(OutputCell(c, i)) =
                          SanitizeInput(IF MatchesInjection(InputText(c, i))
                                        THEN BlockedContent ELSE InputText(c, i))
            /\ ~IsToken(OutputCell(c, i)) => OutputHash(c, i) = StrCell(<<>>)

\* Protect has encrypted a cell whose sanitized text differs from the text
\* given, and left another cell of the field unencrypted.
C7_Witness ==
    /\ Protected
    /\ \E c \in ProtectedFields : \E i, j \in Rows(last.input) :
           /\ IsToken(OutputCell(c, i))
           /\ InputText(c, i) # SanitizeInput(InputText(c, i))
           /\ OutputHash(c, i) = StrCell(HashForIndexing(SanitizeInput(InputText(c, i))))
           /\ ~IsToken(OutputCell(c, j))
           /\ OutputHash(c, j) = StrCell(<<>>)

\* The text protect hands on for a cell: the sentinel for a matched text,
\* and its sanitized form.
Guarded(text) ==
    SanitizeInput(IF MatchesInjection(text) THEN BlockedContent ELSE text)

(***************************************************************************)
(* Properties of decrypt_sensitive_data (reveal) and search_by_hash on the *)
(* record set the most recent protect returned.  prot.input is what that   *)
(* protect was given.                                                      *)
(***************************************************************************)
OnProtected == prot.op = "protect" /\ last.input = prot.output

Revealed == last.op = "reveal" /\ OnProtected

Searched == last.op = "search"

\* reveal was asked for field c: it is in the list, or no list was given.
Targeted(c) ==
    last.fields.given => \E k \in 1..Len(last.fields.names) : last.fields.names[k] = c

OriginalFields == {c \in ColumnSet(prot.input) : IsSensitiveField(c)}

OriginalText(c, i) == Coerce(prot.input.data[c][i])

\* C3: a sensitive-field value that matches no injection pattern and whose
\* sanitized form is neither empty nor "0" is, after protect and a reveal
\* of the field with the same engine, exactly its sanitized form.
C3_RoundTrip ==
    Revealed =>
        \A c \in OriginalFields : \A i \in Rows(prot.input) :
            (/\ Targeted(c)
             /\ ~MatchesInjection(OriginalText(c, i))
             /\ ~IsTrivial(SanitizeInput(OriginalText(c, i)))) =>
                OutputCell(c, i) = StrCell(SanitizeInput(OriginalText(c, i)))

\* A value that sanitization changes has been protected and revealed.
C3_Witness ==
    /\ Revealed
    /\ \E c \in OriginalFields : \E i \in Rows(prot.input) :
           /\ Targeted(c)
           /\ ~MatchesInjection(OriginalText(c, i))
           /\ ~IsTrivial(SanitizeInput(OriginalText(c, i)))
           /\ SanitizeInput(OriginalText(c, i)) # OriginalText(c, i)
           /\ IsToken(last.input.data[c][i])
           /\ OutputCell(c, i) = StrCell(SanitizeInput(OriginalText(c, i)))

\* The place among the records of keep of record i.
Rank(keep, i) == Cardinality({j \in keep : j <= i})

\* selected holds exactly the records of records whose position is in keep,
\* in their order, with the columns and every cell as they are in records.
IsSelection(selected, records, keep) ==
    /\ selected.columns = records.columns
    /\ selected.n = Cardinality(keep)
    /\ \A c \in ColumnSet(records) :
           /\ Len(selected.data[c]) = selected.n
           /\ \A i \in keep : selected.data[c][Rank(keep, i)] = records.data[c][i]

HasIndex == HashColumn(last.field) \in ColumnSet(last.input)

\* C8: when the hash column of the field exists, search_by_hash returns
\* exactly the records whose hash cell is the hash of the query, in their
\* order, every cell as it is in the input.
C8_SearchSelectsByHash ==
    (Searched /\ HasIndex) =>
        IsSelection(last.output, last.input,
            {i \in Rows(last.input) :
                last.input.data[HashColumn(last.field)][i]
                    = StrCell(HashForIndexing(last.query))})

\* A search has returned one record of two, encrypted as it was.
C8_Witness ==
    /\ Searched
    /\ HasIndex
    /\ last.input.n = 2
    /\ last.output.n = 1
    /\ IsToken(last.output.data[last.field][1])
    /\ last.output.data[HashColumn(last.field)][1] = StrCell(HashForIndexing(last.query))

IsQueryable(v) == ~IsTrivial(v) /\ ~MatchesInjection(v)

SearchedProtected ==
    Searched /\ OnProtected /\ last.field \in OriginalFields

\* C9 as stated: for a value v that is not empty, not "0" and not blocked,
\* searching the protected record set for v returns exactly the records
\* whose original cell is v.  The index holds the hash of the sanitized
\* text and the query is hashed as given, so it fails for v = " 12".
C9_AsStated ==
    (SearchedProtected /\ IsQueryable(last.query)) =>
        IsSelection(last.output, last.input,
            {i \in Rows(prot.input) : OriginalText(last.field, i) = last.query})

\* C9: for a value v that is not empty, not "0", matches no injection
\* pattern and is its own sanitized form, searching the protected record
\* set for v returns exactly the records whose original cell, after the
\* Content Guard (the sentinel for a matched text, then sanitization), is v.
C9_SearchBySanitizedValue ==
    (/\ SearchedProtected
     /\ IsQueryable(last.query)
     /\ SanitizeInput(last.query) = last.query) =>
        IsSelection(last.output, last.input,
            {i \in Rows(prot.input) : Guarded(OriginalText(last.field, i)) = last.query})

\* A search has returned the one record of two whose original cell differs
\* from the query but is sanitized to it.
C9_Witness ==
    /\ SearchedProtected
    /\ IsQueryable(last.query)
    /\ SanitizeInput(last.query) = last.query
    /\ prot.input.n = 2
    /\ last.output.n = 1
    /\ \E i \in Rows(prot.input) :
           /\ OriginalText(last.field, i) # last.query
           /\ Guarded(OriginalText(last.field, i)) = last.query
           /\ last.output.data[last.field][1] = last.input.data[last.field][i]

RevealedList == last.op = "reveal" /\ last.fields.given

InList(c) == \E k \in 1..Len(last.fields.names) : last.fields.names[k] = c

HasMarker(cell) == StartsWith(PyStr(cell), EncMarker)

\* C11: reveal with an explicit field list returns the columns of its input
\* in their order and the same number of records, every cell of a field
\* outside the list as it was (hash and metadata columns included), and in
\* a field of the list the cell of record i made from the cell of record i.
C11_RevealTouchesOnlyListed ==
    RevealedList =>
        /\ last.output.columns = last.input.columns
        /\ last.output.n = last.input.n
        /\ \A c \in ColumnSet(last.input) :
               /\ Len(last.output.data[c]) = last.input.n
               /\ ~InList(c) => last.output.data[c] = last.input.data[c]
               /\ InList(c) =>
                      \A i \in Rows(last.input) :
                          HasMarker(last.input.data[c][i]) \/
                              PyStr(OutputCell(c, i)) = PyStr(last.input.data[c][i])

\* A protected record set with two records has been revealed by a list
\* that names one of its two encrypted fields: the other one still holds
\* its tokens, and the hash and metadata columns are there.
C11_Witness ==
    /\ RevealedList
    /\ OnProtected
    /\ last.input.n = 2
    /\ InList("Emitente CNPJ") /\ ~InList("Emitente Nome")
    /\ {"Emitente Nome", "Emitente CNPJ", "Emitente CNPJ_hash", "_encryption_version"}
           \subseteq ColumnSet(last.output)
    /\ \E i \in Rows(last.input) :
           /\ IsToken(last.input.data["Emitente CNPJ"][i])
           /\ ~IsToken(OutputCell("Emitente CNPJ", i))
           /\ IsToken(OutputCell("Emitente Nome", i))

\* C12 as stated: revealing a field in which no cell carries the marker
\* returns every cell of the field as it was, numbers and absent values
\* included.  Lines 238 and 249 store str(value): the number 5 comes back
\* as the text "5" and an absent value as the text "nan".
C12_UnmarkedFieldUnchanged ==
    RevealedList =>
        \A c \in ColumnSet(last.input) :
            (InList(c) /\ \A i \in Rows(last.input) : ~HasMarker(last.input.data[c][i])) =>
                last.output.data[c] = last.input.data[c]

(***************************************************************************)
(* Properties of the audit counters (encryption_stats) over the steps of   *)
(* one engine.                                                             *)
(***************************************************************************)
SensitiveCells(records) ==
    {<<c, i>> \in {f \in ColumnSet(records) : IsSensitiveField(f)} \X Rows(records) : TRUE}

\* The sensitive cells of records whose text matches an injection pattern.
BlockedCells(records) ==
    {p \in SensitiveCells(records) : MatchesInjection(Coerce(records.data[p[1]][p[2]]))}

\* The sensitive cells of records that protect encrypts.
EncryptedCells(records) ==
    {p \in SensitiveCells(records) : ~IsTrivial(Guarded(Coerce(records.data[p[1]][p[2]])))}

Counter(name) == engine.encryption_stats[name]

\* C17 as stated: a protect call makes blocked_injections grow by exactly
\* the number of sensitive cells of the call whose text matches an
\* injection pattern.  The counter is incremented at line 114 and again at
\* line 185, so it grows by twice that number.
C17_BlockedCountedOnce ==
    [][Protect =>
          Counter("blocked_injections")' =
              Counter("blocked_injections") + Cardinality(BlockedCells(cur))]_vars

\* C18 as stated: the counters are running totals since construction: a
\* protect call adds its record count to total_records, the number of cells
\* it encrypted to encrypted_fields and its number of public fields to
\* public_fields.  Lines 152 and 210 assign total_records and public_fields
\* instead of adding to them.
C18_RunningTotals ==
    [][Protect =>
          /\ Counter("total_records")' = Counter("total_records") + cur.n
          /\ Counter("encrypted_fields")' =
                 Counter("encrypted_fields") + Cardinality(EncryptedCells(cur))
          /\ Counter("public_fields")' =
                 Counter("public_fields") + Len(PublicColumns(cur))]_vars

Engines == 1..Len(fleet)

HasProtected(e) == outs[e] # NoCall

FleetFields == {c \in ColumnSet(df) : IsSensitiveField(c)}

\* The cell engine e wrote for df's cell of field c in record i, and its
\* hash sibling.
CellBy(e, c, i) == outs[e].output.data[c][i]

HashBy(e, c, i) == outs[e].output.data[HashColumn(c)][i]

HasShown == shown.by # 0

ShownCell(c, i) == shown.call.output.data[c][i]

SameKey == fleet[shown.by].encryption_key = fleet[shown.of].encryption_key

\* text is the marker followed by a token sealed under key.
SealedBy(key, text) ==
    /\ StartsWith(text, EncMarker)
    /\ FernetValid(key, B64Decode(Slice(text, 5, Len(text))))

\* C13: in reveal, a targeted cell that carries the marker but is no token
\* of the engine's key (text that is no token, or a token sealed under
\* another key) becomes [DECRYPT_ERROR]; reveal raises nothing, and the
\* tokens of the engine's key in the same call are decrypted to their
\* plaintext.
C13_DecryptErrorPerCell ==
    HasShown =>
        /\ shown.call.raised = "None"
        /\ \A c \in FleetFields : \A i \in Rows(df) :
               IsToken(CellBy(shown.of, c, i)) =>
                   ShownCell(c, i) =
                       IF SameKey THEN StrCell(Guarded(Coerce(df.data[c][i])))
                       ELSE StrCell(DecryptError)
        /\ \A c \in ColumnSet(df) \ FleetFields : \A i \in Rows(df) :
               (/\ HasMarker(df.data[c][i])
                /\ ~SealedBy(fleet[shown.by].encryption_key, PyStr(df.data[c][i]))) =>
                   ShownCell(c, i) = StrCell(DecryptError)

\* One reveal has decrypted a token and replaced a marked text that is no
\* token by [DECRYPT_ERROR].
C13_Witness ==
    /\ HasShown
    /\ SameKey
    /\ \E i \in Rows(df) :
           /\ IsToken(CellBy(shown.of, "Emitente CNPJ", i))
           /\ ShownCell("Emitente CNPJ", i) = StrCell(Guarded(Coerce(df.data["Emitente CNPJ"][i])))
           /\ ShownCell("Emitente CNPJ", i) # StrCell(DecryptError)
    /\ \E i \in Rows(df) :
           /\ HasMarker(df.data["Obs"][i])
           /\ ShownCell("Obs", i) = StrCell(DecryptError)

C19_HashWithoutKey ==
    \A a, b \in Engines :
        (HasProtected(a) /\ HasProtected(b)) =>
            /\ \A c \in FleetFields :
                   outs[a].output.data[HashColumn(c)] = outs[b].output.data[HashColumn(c)]
            /\ \A p, q \in SensitiveCells(df) :
                   (/\ IsToken(CellBy(a, p[1], p[2]))
                    /\ IsToken(CellBy(b, q[1], q[2]))
                    /\ DecryptValue(fleet[a].encryption_key, CellBy(a, p[1], p[2]).s)
                          = DecryptValue(fleet[b].encryption_key, CellBy(b, q[1], q[2]).s)) =>
                       HashBy(a, p[1], p[2]) = HashBy(b, q[1], q[2])

\* Two engines with different keys have protected a record set in which
\* two records hold equal sanitized plaintext: the tokens differ, the hash
\* cells are equal.
C19_Witness ==
    \E a, b \in Engines :
        /\ fleet[a].encryption_key # fleet[b].encryption_key
        /\ HasProtected(a) /\ HasProtected(b)
        /\ \E i, j \in Rows(df) :
               /\ i # j
               /\ IsToken(CellBy(a, "Emitente CNPJ", i))
               /\ IsToken(CellBy(b, "Emitente CNPJ", j))
               /\ CellBy(a, "Emitente CNPJ", i) # CellBy(b, "Emitente CNPJ", j)
               /\ CellBy(a, "Emitente CNPJ", i) # CellBy(b, "Emitente CNPJ", i)
               /\ Guarded(Coerce(df.data["Emitente CNPJ"][i]))
                      = Guarded(Coerce(df.data["Emitente CNPJ"][j]))
               /\ HashBy(a, "Emitente CNPJ", i) = HashBy(b, "Emitente CNPJ", j)
               /\ HashBy(a, "Emitente CNPJ", i) # StrCell(<<>>)

(***************************************************************************)
(* Properties of concurrent construction (SpecStartup).                    *)
(***************************************************************************)
\* C15 as stated: when the instances are constructed concurrently while no
\* key file exists, they all end up holding the same key, the one in the
\* file.  Two instances can both pass the test of line 64 before either
\* writes; each derives a key with its own salt and writes it, and the
\* first writer keeps a key that is no longer in the file.
C15_OneKeyAfterConcurrentStartup ==
    (\A p \in Instances : inst[p].pc = "done") =>
        \A p, q \in Instances :
            /\ inst[p].encryption_key = inst[q].encryption_key
            /\ inst[p].encryption_key = keyFile

(***************************************************************************)
(* Properties of concurrent protect calls (SpecThreads).                   *)
(***************************************************************************)
\* The number of increments of the counter name in a protect of records.
IncrementsOf(records, name) ==
    Cardinality({k \in 1..Len(Increments(records)) : Increments(records)[k] = name})

RECURSIVE TotalIncrements(_, _)
TotalIncrements(name, upto) ==
    IF upto = 0 THEN 0
    ELSE TotalIncrements(name, upto - 1) + IncrementsOf(thr[upto].records, name)

\* C16 as stated: when the protect calls that ran concurrently on one
\* engine have returned, encrypted_fields and blocked_injections have grown
\* by the sum of the increments of the calls.  The statements of lines 114,
\* 185 and 200 read and store the counter with no lock: two threads read
\* the same value and one increment is lost.
C16_NoLostUpdate ==
    (\A t \in Threads : thr[t].pc = "done") =>
        /\ Counter("encrypted_fields") = TotalIncrements("encrypted_fields", MaxThreads)
        /\ Counter("blocked_injections") = TotalIncrements("blocked_injections", MaxThreads)

(***************************************************************************)
(* Properties of protect on the records of a record set.                   *)
(***************************************************************************)
\* before is the start of after.
IsPrefix(before, after) ==
    /\ Len(before) <= Len(after)
    /\ \A k \in 1..Len(before) : after[k] = before[k]

\* The cell protect writes for the text of an input cell: a token of the
\* guarded text, or the text as it was when the guarded text is trivial.
MadeFrom(cell, text) ==
    IF IsTrivial(Guarded(text))
    THEN cell = StrCell(text)
    ELSE IsToken(cell) /\ Plaintext(cell) = Guarded(text)

C22_RevealsByAllowList ==
    val.invoked => \A k \in 1..Len(val.reveals) : val.reveals[k].given

(***************************************************************************)
(* Properties of reveal called with no field list.                         *)
(***************************************************************************)
RevealedAll == last.op = "reveal" /\ ~last.fields.given

\* Some cell of column c of records carries the marker.
IsMarked(records, c) == \E i \in Rows(records) : HasMarker(records.data[c][i])

\* text is a token that the engine's key made of plain.
IsTokenOf(text, plain) ==
    \E iv \in 0..drawn : text = EncryptValue(engine.encryption_key, iv, plain)

\* C23: reveal with no field list returns the columns and the number of
\* records of its input; a column in which no cell carries the marker is
\* returned as it was, and in a column in which some cell does, every cell
\* that carried the marker holds the plaintext its token was made of or
\* [DECRYPT_ERROR].
C23_AutoDetectedFields ==
    RevealedAll =>
        /\ last.output.columns = last.input.columns
        /\ last.output.n = last.input.n
        /\ \A c \in ColumnSet(last.input) :
               /\ ~IsMarked(last.input, c) => last.output.data[c] = last.input.data[c]
               /\ \A i \in Rows(last.input) :
                      HasMarker(last.input.data[c][i]) =>
                          /\ OutputCell(c, i).t = "str"
                          /\ \/ OutputCell(c, i).s = DecryptError
                             \/ IsTokenOf(PyStr(last.input.data[c][i]), OutputCell(c, i).s)

\* A protected record set of two records has been revealed with no list:
\* a token was decrypted, a field of no group with the marker in its second
\* record only came back with [DECRYPT_ERROR] there, and a public field
\* came back as it was.
C23_Witness ==
    /\ RevealedAll
    /\ OnProtected
    /\ last.input.n = 2
    /\ {"Emitente CNPJ", "Obs", "Produto"} \subseteq ColumnSet(last.input)
    /\ IsToken(last.input.data["Emitente CNPJ"][1])
    /\ IsTokenOf(last.input.data["Emitente CNPJ"][1].s, OutputCell("Emitente CNPJ", 1).s)
    /\ ~HasMarker(last.input.data["Obs"][1])
    /\ HasMarker(last.input.data["Obs"][2])
    /\ OutputCell("Obs", 2) = StrCell(DecryptError)
    /\ last.output.data["Produto"] = last.input.data["Produto"]

(***************************************************************************)
(* Properties of the field counts protect writes.                          *)
(***************************************************************************)
\* C24 as stated: the count of public fields and the count of sensitive
\* fields that protect writes into the metadata columns, and the
\* public_fields counter with the latter, sum to the number of fields of
\* the record set given.  Lines 162-166 count as public only the fields of
\* the public groups: a field of no group is counted nowhere.
C24_CountsSumToFields ==
    Protected =>
        /\ Counter("public_fields") + Cardinality(ProtectedFields) = Len(last.input.columns)
        /\ \A i \in Rows(last.output) :
               OutputCell("_public_fields_count", i).n
                   + OutputCell("_encrypted_fields_count", i).n = Len(last.input.columns)

(***************************************************************************)
(* Properties of the audit counters and their accessor (SpecAudit).        *)
(***************************************************************************)
Counters == {"total_records", "encrypted_fields", "public_fields", "blocked_injections"}

\* C25: construction leaves every counter at zero, and a step that is not
\* a protect call (a reveal, a search, a get_encryption_stats, a write of
\* the caller into the mapping it was returned) leaves the counters of the
\* engine as they were.
C25_CountersChangedOnlyByProtect ==
    [][/\ (~engine.constructed /\ engine'.constructed) =>
              \A name \in Counters : engine'.encryption_stats[name] = 0
       /\ (engine.constructed /\ last'.op # "protect") =>
              engine'.encryption_stats = engine.encryption_stats]_vars

\* After a protect that encrypted a cell, the caller has written into the
\* mapping get_encryption_stats returned: the mapping and the counters of
\* the engine differ.
C25_Witness ==
    /\ last.op = "modify"
    /\ Counter("encrypted_fields") > 0
    /\ last.stats.value # engine.encryption_stats
    /\ last.stats.value.encrypted_fields = Counter("encrypted_fields") + 1

EndsWith(s, lit) == Len(lit) <= Len(s) /\ At(s, Len(s) - Len(lit) + 1, lit)

\* s has a tag: a < with a > somewhere after it.
HasTag(s) == \E a \in 1..Len(s) : s[a] = TagOpen /\ FindFrom(s, <<TagClose>>, a + 1)

\* What the claim says of the sanitized value s of the text t.
IsSafeValueOf(s, t) ==
    /\ \A k \in 1..Len(s) : ~IsControl(s[k])
    /\ ~HasTag(s)
    /\ Len(s) <= MaxFieldLen + Len(Ellipsis)
    /\ EndsWith(s, Ellipsis) <=> Len(RemoveTags(StripControl(t))) > MaxFieldLen
    /\ SanitizeInput(t) = s
    /\ SanitizeInput(s) = s

\* C26 as stated: the sanitized value of a text that matches no injection
\* pattern has no control character and no tag, is at most 1000 characters
\* long plus the marker, ends with the marker exactly when the text after
\* the removals exceeded 1000 characters, and sanitizing it again returns
\* it unchanged.  strip() runs after the truncation: a text over the limit
\* that starts with a space is cut to 999 characters and the marker, and
\* sanitizing that again cuts into the marker and appends another one.
C26_SafeValue ==
    Protected =>
        \A c \in ProtectedFields : \A i \in Rows(last.input) :
            ~MatchesInjection(InputText(c, i)) =>
                IsSafeValueOf(SanitizeInput(InputText(c, i)), InputText(c, i))

(***************************************************************************)
(* Properties of repeated protect and reveal calls on one record set.      *)
(***************************************************************************)
\* C27 as stated: after protect, whatever protect and reveal calls were
\* made on the record set before, every encrypted sensitive cell carries
\* one layer of encryption: what its token decrypts to is not again a
\* token of the engine, and its hash cell is the hash of that plaintext.
\* protect does not look for the marker: a cell that still holds a token
\* (the record set was protected before and the field not revealed, as in
\* aplicar_edicoes_produto) is sanitized and encrypted once more.
C27_OneLayer ==
    Protected =>
        \A c \in ProtectedFields : \A i \in Rows(last.input) :
            IsToken(OutputCell(c, i)) =>
                /\ ~SealedBy(engine.encryption_key, Plaintext(OutputCell(c, i)))
                /\ OutputHash(c, i) = StrCell(HashForIndexing(Plaintext(OutputCell(c, i))))

\* C28 as stated: revealing the result of a reveal of a protected record
\* set once more, with the same field list or again with none, returns it
\* cell for cell.  A sensitive cell whose plaintext itself begins with ENC:
\* is decrypted by the first reveal and taken for a token by the second,
\* which turns it into [DECRYPT_ERROR].
C28_RevealIdempotent ==
    Revealed =>
        DecryptSensitiveData(engine.encryption_key, last.output, last.fields) = last.output

\* C29 as stated: protecting an extracted record set and revealing the
\* result with no field list returns, in every record, every field that is
\* not sensitive with the text it had.  The fields to reveal are detected
\* by the marker alone: a cell of a field of no group that holds text
\* beginning with ENC: is taken for a token and becomes [DECRYPT_ERROR].
C29_PublicDataIntact ==
    (Revealed /\ ~last.fields.given /\ prot.input = df) =>
        \A c \in ColumnSet(df) :
            ~IsSensitiveField(c) =>
                /\ c \in ColumnSet(last.output)
                /\ \A i \in Rows(df) : PyStr(OutputCell(c, i)) = PyStr(df.data[c][i])

====
